---- MODULE Spec2Model ----
(***************************************************************************)
(* Model of bikesharing_constants.py: the module-level feature lists, the  *)
(* bucket-count dict, the label key and transformed_name, together with    *)
(* the operations a consumer performs on the module (reading a global,     *)
(* subscripting the bucket-count dict, calling transformed_name).          *)
(*                                                                         *)
(* A Python str is modelled as the sequence of its characters, a list as   *)
(* a sequence, a dict as a function on its key set.                        *)
(***************************************************************************)
EXTENDS Integers, Sequences, FiniteSets, TLC

\* Number of consumer threads that use the module concurrently.
NumThreads == 2

\* Longest string drawn over Alphabet as an input of a consumer operation.
MaxLen == 3

(***************************************************************************)
(* String literals of the source.                                          *)
(***************************************************************************)
\* 'Functioning Day'
FunctioningDay ==
    <<"F","u","n","c","t","i","o","n","i","n","g"," ","D","a","y">>

\* 'Holiday'
Holiday ==
    <<"H","o","l","i","d","a","y">>

\* 'Seasons'
Seasons ==
    <<"S","e","a","s","o","n","s">>

\* 'Humidity(%)'
Humidity ==
    <<"H","u","m","i","d","i","t","y","(","%",")">>

\* 'Rainfall(mm)'
Rainfall ==
    <<"R","a","i","n","f","a","l","l","(","m","m",")">>

\* 'Snowfall (cm)'
Snowfall ==
    <<"S","n","o","w","f","a","l","l"," ","(","c","m",")">>

\* 'Solar Radiation (MJ/m2)'
SolarRadiation ==
    <<"S","o","l","a","r"," ","R","a","d","i","a","t","i","o","n"," ","(","M","J","/","m","2",")">>

\* 'Temperature(°C)'
Temperature ==
    <<"T","e","m","p","e","r","a","t","u","r","e","(","°","C",")">>

\* 'Visibility (10m)'
Visibility ==
    <<"V","i","s","i","b","i","l","i","t","y"," ","(","1","0","m",")">>

\* 'Wind speed (m/s)'
WindSpeed ==
    <<"W","i","n","d"," ","s","p","e","e","d"," ","(","m","/","s",")">>

\* 'Hour'
Hour ==
    <<"H","o","u","r">>

\* 'Rented Bike Count'
RentedBikeCount ==
    <<"R","e","n","t","e","d"," ","B","i","k","e"," ","C","o","u","n","t">>

\* 'NotAFeature'
NotAFeature ==
    <<"N","o","t","A","F","e","a","t","u","r","e">>

\* '_xf', the literal appended by transformed_name
Suffix ==
    <<"_","x","f">>

(***************************************************************************)
(* Module-level assignments.                                               *)
(***************************************************************************)
\* CATEGORICAL_FEATURE_KEYS with 'Seasons' left out
CATEGORICAL_FEATURE_KEYS_noSeasons ==
    <<FunctioningDay, Holiday>>

CATEGORICAL_FEATURE_KEYS ==
    <<FunctioningDay, Holiday, Seasons>>

\* NUMERIC_FEATURE_KEYS with 'Hour' listed a second time, as a numeric feature
NUMERIC_FEATURE_KEYS_withHour ==
    <<Humidity, Rainfall, Snowfall, SolarRadiation, Temperature, Visibility, WindSpeed,
      Hour>>

\* NUMERIC_FEATURE_KEYS with its last entry left out
NUMERIC_FEATURE_KEYS_short ==
    <<Humidity, Rainfall, Snowfall, SolarRadiation, Temperature, Visibility>>

NUMERIC_FEATURE_KEYS ==
    <<Humidity, Rainfall, Snowfall, SolarRadiation, Temperature, Visibility, WindSpeed>>

BUCKET_FEATURE_KEYS ==
    <<Hour>>

\* FEATURE_BUCKET_COUNT keyed by a misspelt feature name
FEATURE_BUCKET_COUNT_typo ==
    (<<"h","o","u","r">> :> 4)

\* FEATURE_BUCKET_COUNT with another number of buckets
FEATURE_BUCKET_COUNT_ten ==
    (Hour :> 10)

\* FEATURE_BUCKET_COUNT with no bucket at all
FEATURE_BUCKET_COUNT_zero ==
    (Hour :> 0)

FEATURE_BUCKET_COUNT ==
    (Hour :> 4)

LABEL_KEY ==
    RentedBikeCount

\* transformed_name putting '_xf' in front of the key
transformed_name_prefix(key) ==
    Suffix \o key

\* transformed_name returning the key as it is
transformed_name_identity(key) ==
    key

\* def transformed_name(key): return key + '_xf'
transformed_name(key) ==
    key \o Suffix

\* d.get(k, 0): a default in place of KeyError
DictGetItem_get(d, k) ==
    IF k \in DOMAIN d
    THEN [exc |-> "None", ret |-> d[k], dict |-> d]
    ELSE [exc |-> "None", ret |-> 0, dict |-> d]

\* d.setdefault(k, 0): a missing key is inserted with a default
DictGetItem_setdefault(d, k) ==
    IF k \in DOMAIN d
    THEN [exc |-> "None", ret |-> d[k], dict |-> d]
    ELSE [exc |-> "None", ret |-> 0, dict |-> d @@ (k :> 0)]

\* d[k] on a dict: the stored value, or KeyError when k is not a key.  The
\* dict is left as it was.
DictGetItem(d, k) ==
    IF k \in DOMAIN d
    THEN [exc |-> "None", ret |-> d[k], dict |-> d]
    ELSE [exc |-> "KeyError", ret |-> <<>>, dict |-> d]

(***************************************************************************)
(* Inputs of the consumer operations.                                      *)
(***************************************************************************)
Range(s) == {s[i] : i \in DOMAIN s}

Alphabet == {"_", "x", "f"}

\* every string over Alphabet of length at most MaxLen, the empty one included
ShortStrings == UNION {[1..n -> Alphabet] : n \in 0..MaxLen}

DeclaredNames ==
    Range(CATEGORICAL_FEATURE_KEYS) \cup Range(NUMERIC_FEATURE_KEYS)
        \cup Range(BUCKET_FEATURE_KEYS) \cup {LABEL_KEY}

Keys == DeclaredNames \cup ShortStrings \cup {NotAFeature}

GlobalNames ==
    {"CATEGORICAL_FEATURE_KEYS", "NUMERIC_FEATURE_KEYS", "BUCKET_FEATURE_KEYS",
     "FEATURE_BUCKET_COUNT", "LABEL_KEY"}

Threads == 1..NumThreads

(***************************************************************************)
(* State: the module namespace, and the operation completed last: the      *)
(* thread that ran it, its argument and its outcome.  Every operation is   *)
(* one bytecode-level read, subscript or call on immutable operands, so    *)
(* the threads interleave at whole operations.                             *)
(***************************************************************************)
VARIABLES module, last

vars == <<module, last>>

ModuleGlobals ==
    [CATEGORICAL_FEATURE_KEYS |-> CATEGORICAL_FEATURE_KEYS,
     NUMERIC_FEATURE_KEYS     |-> NUMERIC_FEATURE_KEYS,
     BUCKET_FEATURE_KEYS      |-> BUCKET_FEATURE_KEYS,
     FEATURE_BUCKET_COUNT     |-> FEATURE_BUCKET_COUNT,
     LABEL_KEY                |-> LABEL_KEY]

NoResult == [thread |-> 0, op |-> "none", arg |-> <<>>, exc |-> "None", ret |-> <<>>]

Init ==
    /\ module = ModuleGlobals
    /\ last = NoResult

\* thread t reads the module global named n
ReadGlobal(t, n) ==
    /\ last' = [thread |-> t, op |-> "read", arg |-> n, exc |-> "None",
                ret |-> module[n]]
    /\ UNCHANGED module

\* thread t evaluates FEATURE_BUCKET_COUNT[f]
BucketCount(t, f) ==
    LET r == DictGetItem(module.FEATURE_BUCKET_COUNT, f) IN
    /\ module' = [module EXCEPT !.FEATURE_BUCKET_COUNT = r.dict]
    /\ last' = [thread |-> t, op |-> "bucket_count", arg |-> f, exc |-> r.exc,
                ret |-> r.ret]

\* thread t calls transformed_name(key)
TransformedName(t, key) ==
    /\ last' = [thread |-> t, op |-> "transformed_name", arg |-> key,
                exc |-> "None", ret |-> transformed_name(key)]
    /\ UNCHANGED module

Next ==
    \E t \in Threads :
        \/ \E n \in GlobalNames : ReadGlobal(t, n)
        \/ \E f \in Keys : BucketCount(t, f)
        \/ \E key \in Keys : TransformedName(t, key)

Spec == Init /\ [][Next]_vars

(***************************************************************************)
(* Properties.  The feature sets are the sets of entries of the lists the  *)
(* module holds.                                                           *)
(***************************************************************************)
Categorical == Range(module.CATEGORICAL_FEATURE_KEYS)

Numeric == Range(module.NUMERIC_FEATURE_KEYS)

Bucketed == Range(module.BUCKET_FEATURE_KEYS)

Declared == Categorical \cup Numeric \cup Bucketed

\* C1: the categorical, numeric and bucketed feature sets are pairwise
\* disjoint, and the label 'Rented Bike Count' is in none of them.
C1_PairwiseDisjoint ==
    /\ Categorical \cap Numeric = {}
    /\ Categorical \cap Bucketed = {}
    /\ Numeric \cap Bucketed = {}
    /\ module.LABEL_KEY = <<"R","e","n","t","e","d"," ","B","i","k","e"," ","C","o","u","n","t">>
    /\ module.LABEL_KEY \notin Declared

C1_Witness ==
    /\ last.op = "read"
    /\ last.arg = "NUMERIC_FEATURE_KEYS"
    /\ Categorical # {} /\ Numeric # {} /\ Bucketed # {}

\* C2: the key set of the bucket-count table is exactly the bucketed feature
\* set, which is {'Hour'}.
C2_BucketKeysMatch ==
    /\ DOMAIN module.FEATURE_BUCKET_COUNT = Bucketed
    /\ Bucketed = {<<"H","o","u","r">>}

C2_Witness ==
    /\ last.op = "read"
    /\ last.arg = "BUCKET_FEATURE_KEYS"
    /\ Range(last.ret) = DOMAIN module.FEATURE_BUCKET_COUNT

\* C3: transformed_name(s) is s followed by '_xf' for every string s, the
\* empty one included ('Hour' gives 'Hour_xf', '' gives '_xf'), and it never
\* raises.
C3_AppendsSuffix ==
    last.op = "transformed_name" =>
        /\ last.exc = "None"
        /\ Len(last.ret) = Len(last.arg) + 3
        /\ \A i \in 1..Len(last.arg) : last.ret[i] = last.arg[i]
        /\ last.ret[Len(last.arg) + 1] = "_"
        /\ last.ret[Len(last.arg) + 2] = "x"
        /\ last.ret[Len(last.arg) + 3] = "f"
        /\ (last.arg = <<"H","o","u","r">> => last.ret = <<"H","o","u","r","_","x","f">>)
        /\ (last.arg = <<>> => last.ret = <<"_","x","f">>)

C3_Witness ==
    /\ last.op = "transformed_name"
    /\ last.arg = <<>>
    /\ last.ret = <<"_","x","f">>

\* C4: looking up the bucket count of a name outside the bucketed feature set
\* ('NotAFeature', a categorical or numeric feature, the label) raises
\* KeyError and returns no value.
C4_UnknownFeatureRaises ==
    (last.op = "bucket_count" /\ last.arg \notin Bucketed) =>
        /\ last.exc = "KeyError"
        /\ last.ret = <<>>

C4_Witness ==
    /\ last.op = "bucket_count"
    /\ last.arg = <<"N","o","t","A","F","e","a","t","u","r","e">>
    /\ last.exc = "KeyError"

C6_BucketCountOfHour ==
    (last.op = "bucket_count" /\ last.arg \in Bucketed) =>
        /\ last.exc = "None"
        /\ last.ret = module.FEATURE_BUCKET_COUNT[last.arg]
        /\ (last.arg = <<"H","o","u","r">> => last.ret = 4)

C6_Witness ==
    /\ last.op = "bucket_count"
    /\ last.arg = <<"H","o","u","r">>
    /\ last.ret = 4

\* C7: there are 11 declared input features, 3 categorical, 7 numeric and
\* 1 bucketed, and the label is not one of them.
C7_ElevenFeatures ==
    /\ Len(module.CATEGORICAL_FEATURE_KEYS) = 3
    /\ Len(module.NUMERIC_FEATURE_KEYS) = 7
    /\ Len(module.BUCKET_FEATURE_KEYS) = 1
    /\ Cardinality(Categorical) + Cardinality(Numeric) + Cardinality(Bucketed) = 11
    /\ Cardinality(Declared) = 11
    /\ module.LABEL_KEY \notin Declared

C7_Witness ==
    /\ last.op = "read"
    /\ last.arg = "LABEL_KEY"
    /\ last.ret \notin Declared
    /\ Cardinality(Declared) = 11

\* C8: a read of the categorical list gives exactly 'Functioning Day',
\* 'Holiday' and 'Seasons', a read of the bucketed list exactly 'Hour', and a
\* read of the label 'Rented Bike Count'.
C8_FixedValues ==
    /\ (last.op = "read" /\ last.arg = "CATEGORICAL_FEATURE_KEYS") =>
            Range(last.ret) = {<<"F","u","n","c","t","i","o","n","i","n","g"," ","D","a","y">>,
                               <<"H","o","l","i","d","a","y">>,
                               <<"S","e","a","s","o","n","s">>}
    /\ (last.op = "read" /\ last.arg = "BUCKET_FEATURE_KEYS") =>
            Range(last.ret) = {<<"H","o","u","r">>}
    /\ (last.op = "read" /\ last.arg = "LABEL_KEY") =>
            last.ret = <<"R","e","n","t","e","d"," ","B","i","k","e"," ","C","o","u","n","t">>

C8_Witness ==
    /\ last.op = "read"
    /\ last.arg = "CATEGORICAL_FEATURE_KEYS"
    /\ Len(last.ret) = 3

\* C9: every value of the bucket-count table is an integer that is at least 1.
C9_PositiveCounts ==
    \A k \in DOMAIN module.FEATURE_BUCKET_COUNT :
        /\ module.FEATURE_BUCKET_COUNT[k] \in Int
        /\ module.FEATURE_BUCKET_COUNT[k] >= 1

C9_Witness ==
    /\ last.op = "read"
    /\ last.arg = "FEATURE_BUCKET_COUNT"
    /\ DOMAIN last.ret # {}

\* C10: transformed_name is injective, the transformed names of the 11
\* declared features and the label are pairwise distinct, and none of them is
\* the name of a declared feature or the label.
C10_NoNameCollision ==
    LET names == Declared \cup {module.LABEL_KEY}
        xf    == {transformed_name(n) : n \in names}
    IN  /\ last.op = "transformed_name" =>
                \A k \in Keys : transformed_name(k) = last.ret => k = last.arg
        /\ Cardinality(names) = 12
        /\ Cardinality(xf) = 12
        /\ xf \cap names = {}

C10_Witness ==
    /\ last.op = "transformed_name"
    /\ last.arg = module.LABEL_KEY
    /\ last.ret \notin Declared

====
